---- MODULE Spec2Model ----
(***************************************************************************)
(* A model of the tile-grid aggregation engine of crimedb                  *)
(* (src/src/crimedb/www.py): the slippy-tile projector, the grid builder,  *)
(* the grid combiner, the zoom pyramid builder, the region tile            *)
(* partitioner and the tile renderer; and of the ingest side that feeds    *)
(* it: the crime records of core.py, the pager of socrata.py, the          *)
(* geocoders of geocoding.py and download and process of the regions.      *)
(*                                                                         *)
(* Python dictionaries are modelled as functions with a finite domain.    *)
(* A collections.defaultdict creates a missing key when it is read, so     *)
(* every read and every write of the nested dictionaries is modelled with  *)
(* the key creation the code performs.  The loops of the code add with +=  *)
(* or assign each key once, so the order in which a dictionary is          *)
(* iterated does not change the result; the model iterates in an order     *)
(* fixed by CHOOSE.                                                        *)
(***************************************************************************)
EXTENDS Integers, Sequences, FiniteSets, TLC

\* ------------------------------------------------------------------ bounds
MaxZoom == 2        \* zoom levels 0..MaxZoom
MaxCrimes == 2      \* points in one batch handed to grid_from_crimes
MaxGrids == 2       \* grids handed to grid_add
MaxDepth == 2       \* largest zoom_depth handed to rzgrid_from_zgrid
MaxCalls == 1       \* calls of rzgrid_to_geojson on one retile structure
PAGESZ == 2         \* rows of one page of socrata.dataset_rows, scaled down
MaxRows == 4        \* rows of a remote dataset
MaxLocs == 3        \* locations handed to a geocoder, rows of a raw file
MaxBatch == 2       \* largest batch_size handed to geocode_mapquest
MaxRuns == 2        \* runs of download of one region

\* ------------------------------------------------------- Python arithmetic
RECURSIVE Pow2(_)
\* 2 ** k
Pow2(k) == IF k <= 0 THEN 1 ELSE 2 * Pow2(k - 1)

\* int(a / b) for b > 0: Python's int() truncates toward zero
PyInt(a, b) == IF a >= 0 THEN a \div b ELSE -((-a) \div b)

\* ------------------------------------------------------------ defaultdict
\* a dictionary without keys
EmptyDict == [k \in {} |-> 0]

\* d[k] = v
DictSet(d, k, v) == [j \in (DOMAIN d) \cup {k} |-> IF j = k THEN v ELSE d[j]]

\* the value d[k] of a defaultdict whose default_factory returns dflt
DictGet(d, k, dflt) == IF k \in DOMAIN d THEN d[k] ELSE dflt

\* the dictionary after d[k] was read: a missing key has been created
DictTouch(d, k, dflt) == IF k \in DOMAIN d THEN d ELSE DictSet(d, k, dflt)

\* the (x, y) pairs that "for x, ycounts in g.items(): for y, count in
\* ycounts.items()" visits
GridItems(g) == UNION {{<<x, y>> : y \in DOMAIN g[x]} : x \in DOMAIN g}

\* grid[x][y] = count on a defaultdict(partial(defaultdict, int))
GridAssign(g, x, y, count) ==
    DictSet(g, x, DictSet(DictGet(g, x, EmptyDict), y, count))

\* grid[x][y] += count on a defaultdict(partial(defaultdict, int))
GridIncrement(g, x, y, count) ==
    LET col == DictGet(g, x, EmptyDict)
    IN  DictSet(g, x, DictSet(col, y, DictGet(col, y, 0) + count))

\* the count a reader finds at (x, y): a missing key counts as 0
GridCount(g, x, y) ==
    IF x \in DOMAIN g /\ y \in DOMAIN g[x] THEN g[x][y] ELSE 0

RECURSIVE SumOver(_, _)
\* sum of the counts of the cells in a set of (x, y) pairs
SumOver(g, cells) ==
    IF cells = {} THEN 0
    ELSE LET c == CHOOSE c \in cells : TRUE
         IN  g[c[1]][c[2]] + SumOver(g, cells \ {c})

\* sum of all the counts a grid holds
GridTotal(g) == SumOver(g, GridItems(g))

\* ------------------------------------------------------------ tile projector
(***************************************************************************)
(* TLA+ has no floating point and no transcendental functions, so the      *)
(* doubles of the projector are held in fixed point.                       *)
(*   A longitude is an integer number of 1/LonScale degrees; every         *)
(* longitude of the model and every tile corner up to MaxZoom is exact in  *)
(* this unit, as it is in a double.                                        *)
(*   A latitude is held by the value the code derives from it,             *)
(*     (1.0 - log(tan(lat_rad) + 1 / cos(lat_rad)) / pi) / 2.0,            *)
(* as a record: merc is that value in 1/MercScale units, rounded down;     *)
(* ulp is the sign of what the double holds beyond merc (0: the double is  *)
(* exactly merc / MercScale); zerolog says that tan(lat_rad) + 1 /         *)
(* cos(lat_rad) evaluates to 0.0, for which math.log raises ValueError.   *)
(***************************************************************************)
LonScale == Pow2(MaxZoom)
MercScale == 1000 * Pow2(MaxZoom)

\* the latitude of d degrees, d an integer: the table holds
\* floor(1000 * (1.0 - log(tan(lat_rad) + 1 / cos(lat_rad)) / pi) / 2.0)
\* as IEEE-754 doubles evaluate it.  tan(radians(90.0)) is finite (1.6e16), so
\* 90 has a value; at -90 the sum of tan and 1 / cos is 0.0.
Latitude(d) ==
    CASE d = 90  -> [merc |-> (-5552) * Pow2(MaxZoom), ulp |-> 1, zerolog |-> FALSE]
      [] d = 89  -> [merc |-> (-255) * Pow2(MaxZoom), ulp |-> 1, zerolog |-> FALSE]
      [] d = 85  -> [merc |-> 1 * Pow2(MaxZoom), ulp |-> 1, zerolog |-> FALSE]
      [] d = 66  -> [merc |-> 253 * Pow2(MaxZoom), ulp |-> 1, zerolog |-> FALSE]
      [] d = 0   -> [merc |-> 500 * Pow2(MaxZoom), ulp |-> 0, zerolog |-> FALSE]
      [] d = -66 -> [merc |-> 746 * Pow2(MaxZoom), ulp |-> 1, zerolog |-> FALSE]
      [] d = -85 -> [merc |-> 998 * Pow2(MaxZoom), ulp |-> 1, zerolog |-> FALSE]
      [] d = -89 -> [merc |-> 1254 * Pow2(MaxZoom), ulp |-> 1, zerolog |-> FALSE]
      [] d = -90 -> [merc |-> 0, ulp |-> 0, zerolog |-> TRUE]

\* the longitude of d degrees
Longitude(d) == d * LonScale

\* int(v) of the double v that a latitude record scaled by n stands for:
\* truncation toward zero, where only a value on an integer needs the ulp
IntOfMerc(lat, n) ==
    LET num == lat.merc * n
        k == num \div MercScale
    IN  IF num % MercScale # 0 THEN PyInt(num, MercScale)
        ELSE IF lat.ulp < 0 /\ k > 0 THEN k - 1
        ELSE IF lat.ulp > 0 /\ k < 0 THEN k + 1
        ELSE k

\* math.log raises ValueError for this latitude
slippy_tile_coordinates_raises(lat) == lat.zerolog

\* slippy_tile_coordinates_from_point(lon, lat, zoom) -> (xtile, ytile)
slippy_tile_coordinates_from_point(lon, lat, zoom) ==
    LET n == Pow2(zoom)
        xtile == PyInt((lon + 180 * LonScale) * n, 360 * LonScale)
        ytile == IntOfMerc(lat, n)
    IN  <<xtile, ytile>>

\* point_from_slippy_tile_coordinates(x, y, z) -> (lon_deg, lat_deg).
\* lon_deg is exact.  lat_deg = degrees(atan(sinh(pi * (1 - 2 * y / n)))) is
\* the double next to the latitude of the tile's edge, on the side rnd names:
\* sinh, atan, tan, cos and log round, each libm in its own way, and a later
\* log(tan(..) + 1 / cos(..)) of lat_deg lands within a few ulps of y / n on
\* either side.  On the equator (2 * y = n) every step is exact: sinh(0.0),
\* atan(0.0), tan(0.0) and log(1.0) are 0.0.  (CPython on x86-64 glibc ends
\* below y / n for y / n = 1/4 and above it for y / n = 7/8.)
point_from_slippy_tile_coordinates(x, y, z, rnd) ==
    LET n == Pow2(z)
        lon_deg == (x * 360 * LonScale) \div n - 180 * LonScale
        lat_deg == [merc |-> (y * MercScale) \div n,
                    ulp |-> IF 2 * y = n THEN 0 ELSE rnd,
                    zerolog |-> FALSE]
    IN  <<lon_deg, lat_deg>>

\* the roundings a double evaluation can end with
Roundings == {-1, 0, 1}

\* ------------------------------------------------------------- grid builder
\* c['geo']['coordinates'] of a crime record
Crime(lon, lat) == [geo |-> [coordinates |-> <<lon, lat>>]]

\* a crime in the sequence makes slippy_tile_coordinates_from_point raise
grid_from_crimes_raises(crimes) ==
    \E i \in 1..Len(crimes) :
        slippy_tile_coordinates_raises(crimes[i].geo.coordinates[2])

RECURSIVE grid_from_crimes_loop_assign(_, _, _)
\* grid_from_crimes_loop with "grid[x][y] = 1" in place of "grid[x][y] += 1"
grid_from_crimes_loop_assign(grid, crimes, zoom) ==
    IF crimes = <<>> THEN grid
    ELSE LET c == Head(crimes)
             lon == c.geo.coordinates[1]
             lat == c.geo.coordinates[2]
             xy == slippy_tile_coordinates_from_point(lon, lat, zoom)
         IN  grid_from_crimes_loop_assign(GridAssign(grid, xy[1], xy[2], 1),
                                          Tail(crimes), zoom)

RECURSIVE grid_from_crimes_loop(_, _, _)
\* the loop "for c in crimes" of grid_from_crimes, from the grid built so far
grid_from_crimes_loop(grid, crimes, zoom) ==
    IF crimes = <<>> THEN grid
    ELSE LET c == Head(crimes)
             lon == c.geo.coordinates[1]
             lat == c.geo.coordinates[2]
             xy == slippy_tile_coordinates_from_point(lon, lat, zoom)
         IN  grid_from_crimes_loop(GridIncrement(grid, xy[1], xy[2], 1),
                                   Tail(crimes), zoom)

\* grid_from_crimes(crimes, zoom) -> {x => {y => count}}
grid_from_crimes(crimes, zoom) == grid_from_crimes_loop(EmptyDict, crimes, zoom)

\* GridTests._list_to_grid(l): grid[col][row] = l[row][col]; Python counts
\* rows and columns from 0, the sequences of the model from 1
list_to_grid(l) ==
    LET cols == UNION {1..Len(l[r]) : r \in 1..Len(l)}
    IN  [x \in {c - 1 : c \in cols} |->
            [y \in {r - 1 : r \in {q \in 1..Len(l) : Len(l[q]) > x}} |->
                l[y + 1][x + 1]]]

\* ------------------------------------------------------------ grid combiner
RECURSIVE grid_add_items_overwrite(_, _, _)
\* grid_add_items with "grid[x][y] = count" in place of "grid[x][y] += count"
grid_add_items_overwrite(grid, g, items) ==
    IF items = {} THEN grid
    ELSE LET c == CHOOSE c \in items : TRUE
         IN  grid_add_items_overwrite(GridAssign(grid, c[1], c[2], g[c[1]][c[2]]),
                                      g, items \ {c})

RECURSIVE grid_add_items(_, _, _)
\* the two inner loops of grid_add over one argument g
grid_add_items(grid, g, items) ==
    IF items = {} THEN grid
    ELSE LET c == CHOOSE c \in items : TRUE
         IN  grid_add_items(GridIncrement(grid, c[1], c[2], g[c[1]][c[2]]),
                            g, items \ {c})

RECURSIVE grid_add_loop(_, _)
\* the loop "for g in grids" of grid_add, from the grid built so far
grid_add_loop(grid, grids) ==
    IF grids = <<>> THEN grid
    ELSE grid_add_loop(grid_add_items(grid, Head(grids), GridItems(Head(grids))),
                       Tail(grids))

\* grid_add(*grids) -> {x => {y => count}}
grid_add(grids) == grid_add_loop(EmptyDict, grids)

\* ------------------------------------------------------ zoom pyramid builder
\* zgrid[z][x][y] = count on the three-level defaultdict
ZgridAssign(zgrid, z, x, y, count) ==
    DictSet(zgrid, z, GridAssign(DictGet(zgrid, z, EmptyDict), x, y, count))

\* zgrid[z][x][y] += count on the three-level defaultdict
ZgridIncrement(zgrid, z, x, y, count) ==
    DictSet(zgrid, z, GridIncrement(DictGet(zgrid, z, EmptyDict), x, y, count))

RECURSIVE zgrid_populate(_, _, _, _)
\* "Populate the initial zoom level": zgrid[zoom][x][y] = count per cell
zgrid_populate(zgrid, grid, items, zoom) ==
    IF items = {} THEN zgrid
    ELSE LET c == CHOOSE c \in items : TRUE
         IN  zgrid_populate(ZgridAssign(zgrid, zoom, c[1], c[2], grid[c[1]][c[2]]),
                            grid, items \ {c}, zoom)

RECURSIVE zgrid_rollup_items_overwrite(_, _, _)
\* zgrid_rollup_items with "=" in place of "+=": a child overwrites its parent
zgrid_rollup_items_overwrite(zgrid, z, items) ==
    IF items = {} THEN zgrid
    ELSE LET c == CHOOSE c \in items : TRUE
         IN  zgrid_rollup_items_overwrite(
                 ZgridAssign(zgrid, z - 1, PyInt(c[1], 2), PyInt(c[2], 2),
                             zgrid[z][c[1]][c[2]]),
                 z, items \ {c})

RECURSIVE zgrid_rollup_items(_, _, _)
\* the two inner loops of the roll-up of level z:
\* zgrid[z - 1][int(x / 2)][int(y / 2)] += zgrid[z][x][y]
zgrid_rollup_items(zgrid, z, items) ==
    IF items = {} THEN zgrid
    ELSE LET c == CHOOSE c \in items : TRUE
         IN  zgrid_rollup_items(
                 ZgridIncrement(zgrid, z - 1, PyInt(c[1], 2), PyInt(c[2], 2),
                                zgrid[z][c[1]][c[2]]),
                 z, items \ {c})

RECURSIVE zgrid_rollup(_, _, _)
\* "for z in range(zoom, min_zoom, -1)"; reading zgrid[z] creates the level
zgrid_rollup(zgrid, z, min_zoom) ==
    IF z <= min_zoom THEN zgrid
    ELSE LET read == DictTouch(zgrid, z, EmptyDict)
         IN  zgrid_rollup(zgrid_rollup_items(read, z, GridItems(read[z])),
                          z - 1, min_zoom)

\* zgrid_from_grid_asserts with "assert min_zoom <= zoom"
zgrid_from_grid_asserts_inclusive(zoom, min_zoom) == min_zoom <= zoom /\ min_zoom >= 0

\* the assertions of zgrid_from_grid hold
zgrid_from_grid_asserts(zoom, min_zoom) == min_zoom < zoom /\ min_zoom >= 0

\* zgrid_from_grid(grid, zoom, min_zoom) -> {z => {x => {y => count}}}
zgrid_from_grid(grid, zoom, min_zoom) ==
    zgrid_rollup(zgrid_populate(EmptyDict, grid, GridItems(grid), zoom),
                 zoom, min_zoom)

\* --------------------------------------------------- region tile partitioner
\* rzgrid[z][x][y][sx][sy] = count on the five-level defaultdict
RzgridAssign(rzgrid, z, x, y, sx, sy, count) ==
    LET lz == DictGet(rzgrid, z, EmptyDict)
        lx == DictGet(lz, x, EmptyDict)
        block == DictGet(lx, y, EmptyDict)
    IN  DictSet(rzgrid, z,
            DictSet(lz, x, DictSet(lx, y, GridAssign(block, sx, sy, count))))

\* rzgrid_in_block with xx_max and yy_max one too large
rzgrid_in_block_wide(xx, yy, x, y, zoom_depth) ==
    LET p == Pow2(zoom_depth)
        xx_min == x * p
        xx_max == (x + 1) * p
        yy_min == y * p
        yy_max == (y + 1) * p
    IN  ~(xx < xx_min \/ xx > xx_max) /\ ~(yy < yy_min \/ yy > yy_max)

\* the cell (xx, yy) passes both "continue" tests of the block of (x, y)
rzgrid_in_block(xx, yy, x, y, zoom_depth) ==
    LET p == Pow2(zoom_depth)
        xx_min == x * p
        xx_max == (x + 1) * p - 1
        yy_min == y * p
        yy_max == (y + 1) * p - 1
    IN  ~(xx < xx_min \/ xx > xx_max) /\ ~(yy < yy_min \/ yy > yy_max)

\* rzgrid_block that fills the block by reading fine[xx][yy] for every
\* sub-index of range(p) x range(p), as grid_pformat reads a grid
rzgrid_block_dense(rzgrid, fine, items, z, x, y, zoom_depth) ==
    LET p == Pow2(zoom_depth)
        lz == DictGet(rzgrid, z, EmptyDict)
        lx == DictGet(lz, x, EmptyDict)
        block == [sx \in 0..(p - 1) |->
                    [sy \in 0..(p - 1) |-> GridCount(fine, x * p + sx, y * p + sy)]]
    IN  DictSet(rzgrid, z, DictSet(lz, x, DictSet(lx, y, block)))

RECURSIVE rzgrid_block(_, _, _, _, _, _, _)
\* the loops over fine = zgrid[z + zoom_depth] for the cell (x, y) of level z
rzgrid_block(rzgrid, fine, items, z, x, y, zoom_depth) ==
    IF items = {} THEN rzgrid
    ELSE LET c == CHOOSE c \in items : TRUE
             p == Pow2(zoom_depth)
             next == IF rzgrid_in_block(c[1], c[2], x, y, zoom_depth)
                     THEN RzgridAssign(rzgrid, z, x, y, c[1] - x * p, c[2] - y * p,
                                       fine[c[1]][c[2]])
                     ELSE rzgrid
         IN  rzgrid_block(next, fine, items \ {c}, z, x, y, zoom_depth)

RECURSIVE rzgrid_level(_, _, _, _, _)
\* the loops over the cells (x, y) of zgrid[z]
rzgrid_level(rzgrid, zgrid, z, items, zoom_depth) ==
    IF items = {} THEN rzgrid
    ELSE LET c == CHOOSE c \in items : TRUE
             fine == DictGet(zgrid, z + zoom_depth, EmptyDict)
         IN  rzgrid_level(
                 rzgrid_block(rzgrid, fine, GridItems(fine), z, c[1], c[2], zoom_depth),
                 zgrid, z, items \ {c}, zoom_depth)

RECURSIVE rzgrid_levels(_, _, _, _, _)
\* "for z in range(0, max_zoom + 1)", from level z on
rzgrid_levels(rzgrid, zgrid, z, max_zoom, zoom_depth) ==
    IF z > max_zoom THEN rzgrid
    ELSE rzgrid_levels(
             rzgrid_level(rzgrid, zgrid, z,
                          GridItems(DictGet(zgrid, z, EmptyDict)), zoom_depth),
             zgrid, z + 1, max_zoom, zoom_depth)

\* max(zgrid.keys())
MaxKey(d) == CHOOSE k \in DOMAIN d : \A j \in DOMAIN d : j <= k

\* rzgrid_from_zgrid_asserts with "assert max_zoom > 0"
rzgrid_from_zgrid_asserts_strict(zgrid, zoom_depth) == MaxKey(zgrid) - zoom_depth > 0

\* the assertion of rzgrid_from_zgrid holds
rzgrid_from_zgrid_asserts(zgrid, zoom_depth) == MaxKey(zgrid) - zoom_depth >= 0

\* rzgrid_from_zgrid(zgrid, zoom_depth) -> {z => {x => {y => {x => {y => count}}}}}
rzgrid_from_zgrid(zgrid, zoom_depth) ==
    rzgrid_levels(EmptyDict, zgrid, 0, MaxKey(zgrid) - zoom_depth, zoom_depth)

\* zgrid after rzgrid_from_zgrid(zgrid, zoom_depth): the call reads zgrid[z]
\* for every z of its range, and zgrid[z + zoom_depth] for every level z that
\* holds a cell; a defaultdict creates the levels it did not hold
rzgrid_from_zgrid_reads(zgrid, zoom_depth) ==
    LET max_zoom == MaxKey(zgrid) - zoom_depth
        coarse == 0..max_zoom
        fine == {z + zoom_depth : z \in {q \in coarse :
                    GridItems(DictGet(zgrid, q, EmptyDict)) # {}}}
    IN  [z \in (DOMAIN zgrid) \cup coarse \cup fine |-> DictGet(zgrid, z, EmptyDict)]

\* -------------------------------------------------------------- tile renderer
\* rzgrid[zoom][x][y][xx] was read: the five-level defaultdict creates the
\* level, the column, the block and the sub-column it does not hold
RzgridTouch(rzgrid, zoom, x, y, xx) ==
    LET lz == DictGet(rzgrid, zoom, EmptyDict)
        lx == DictGet(lz, x, EmptyDict)
        block == DictGet(lx, y, EmptyDict)
    IN  DictSet(rzgrid, zoom,
            DictSet(lz, x, DictSet(lx, y, DictTouch(block, xx, EmptyDict))))

\* the sub-cells (xx, yy) the loops of rzgrid_to_geojson visit from (xx, yy)
\* on, in their order: xx ascending, yy ascending within xx
RECURSIVE geojson_range(_, _, _)
geojson_range(xx, yy, p) ==
    IF xx >= p THEN <<>>
    ELSE IF yy >= p THEN geojson_range(xx + 1, 0, p)
    ELSE <<(<<xx, yy>>)>> \o geojson_range(xx, yy + 1, p)

\* the GeoJSON object of sub-cell (xx, yy): the polygon shapely builds is
\* the box of the sub-cell, held here as the sub-cell it covers
geojson_object(xx, yy, crime_count) ==
    [box |-> <<xx, yy>>, crime_count |-> crime_count]

\* the two loops of rzgrid_to_geojson over the block rzgrid[zoom][x][y]
RECURSIVE rzgrid_to_geojson_loop(_, _, _)
rzgrid_to_geojson_loop(block, cells, gjos) ==
    IF cells = <<>> THEN gjos
    ELSE LET xx == Head(cells)[1]
             yy == Head(cells)[2]
         IN  IF yy \notin DOMAIN DictGet(block, xx, EmptyDict)
             THEN rzgrid_to_geojson_loop(block, Tail(cells), gjos)
             ELSE rzgrid_to_geojson_loop(block, Tail(cells),
                      gjos \o <<geojson_object(xx, yy, block[xx][yy])>>)

\* rzgrid_to_geojson(rzgrid, x, y, zoom, zoom_depth) -> [gjo, ...]
rzgrid_to_geojson(rzgrid, x, y, zoom, zoom_depth) ==
    LET lz == DictGet(rzgrid, zoom, EmptyDict)
        lx == DictGet(lz, x, EmptyDict)
        block == DictGet(lx, y, EmptyDict)
    IN  rzgrid_to_geojson_loop(block, geojson_range(0, 0, Pow2(zoom_depth)), <<>>)

RECURSIVE rzgrid_to_geojson_touch(_, _, _, _, _)
\* rzgrid after rzgrid[zoom][x][y][xx] was read for every xx of cells
rzgrid_to_geojson_touch(rzgrid, x, y, zoom, cells) ==
    IF cells = <<>> THEN rzgrid
    ELSE rzgrid_to_geojson_touch(RzgridTouch(rzgrid, zoom, x, y, Head(cells)[1]),
                                 x, y, zoom, Tail(cells))

\* rzgrid after rzgrid_to_geojson(rzgrid, x, y, zoom, zoom_depth): the test
\* "yy not in rzgrid[zoom][x][y][xx]" reads the sub-column of every xx
rzgrid_to_geojson_reads(rzgrid, x, y, zoom, zoom_depth) ==
    rzgrid_to_geojson_touch(rzgrid, x, y, zoom,
                            geojson_range(0, 0, Pow2(zoom_depth)))

\* ------------------------------------------------------------ grid printer
\* min(d.keys())
MinKey(d) == CHOOSE k \in DOMAIN d : \A j \in DOMAIN d : k <= j

\* grid_pformat raises: min() of a grid without a column, or of a first
\* column without a cell, raises ValueError
grid_pformat_raises(grid) ==
    \/ DOMAIN grid = {}
    \/ DOMAIN grid[MinKey(grid)] = {}

\* the rows of grid_pformat(grid), one per y of range(y_min, y_max + 1), each
\* the list [grid[x][y] for x in range(x_min, x_max + 1)]; pprint.pformat
\* writes the list down as it is
grid_pformat(grid) ==
    LET x_min == MinKey(grid)
        x_max == MaxKey(grid)
        y_min == MinKey(grid[x_min])
        y_max == MaxKey(grid[x_min])
    IN  [r \in 1..(y_max - y_min + 1) |->
            [c \in 1..(x_max - x_min + 1) |->
                GridCount(grid, x_min + c - 1, y_min + r - 1)]]

\* grid after grid_pformat(grid): "grid[x][y]" is read for every x of
\* range(x_min, x_max + 1) and every y of range(y_min, y_max + 1), and the
\* defaultdict creates the column and the cell, with int() = 0, it does not
\* hold
grid_pformat_reads(grid) ==
    LET x_min == MinKey(grid)
        x_max == MaxKey(grid)
        y_min == MinKey(grid[x_min])
        y_max == MaxKey(grid[x_min])
    IN  [x \in (DOMAIN grid) \cup (x_min..x_max) |->
            LET col == DictGet(grid, x, EmptyDict)
            IN  [y \in (DOMAIN col) \cup (y_min..y_max) |-> DictGet(col, y, 0)]]

\* ---------------------------------------------------------- object identity
(***************************************************************************)
(* A grid is a dictionary object whose values are column dictionary        *)
(* objects; both are mutable, and two grids may hold the same column       *)
(* object.  An object is named after the call that allocated it: the       *)
(* function ("grids" for a builder of an argument of grid_add), the        *)
(* instance (the position among the arguments of grid_add, or the zoom     *)
(* level) and, for a column, its key.  The objects of a grid are the      *)
(* record of the name of the grid itself and of the names of its columns.  *)
(***************************************************************************)
\* the objects of a grid g that the call `site` built from nothing
NewObjects(site, n, g) ==
    [self |-> <<site, n>>, cols |-> [x \in DOMAIN g |-> <<site, n, x>>]]

\* grid_add_objects with "grid[x] = ycounts" for the columns of the first
\* argument: the result holds the column objects of that argument
grid_add_objects_shallow(objs, grid) ==
    LET new == NewObjects("grid_add", 0, grid)
    IN  [self |-> new.self,
         cols |-> [x \in DOMAIN grid |->
                    IF objs # <<>> /\ x \in DOMAIN objs[1].cols
                    THEN objs[1].cols[x] ELSE new.cols[x]]]

\* the objects of the grid grid_add returns, objs being the objects of its
\* arguments: "grid = defaultdict(...)" is a new dictionary, and every column
\* is made by its default_factory when "grid[x][y] += count" first reads it
grid_add_objects(objs, grid) == NewObjects("grid_add", 0, grid)

\* zgrid_from_grid_objects with "zgrid[zoom] = grid": level zoom is the
\* input grid itself
zgrid_from_grid_objects_reference(obj, zgrid, zoom) ==
    [z \in DOMAIN zgrid |->
        IF z = zoom THEN obj ELSE NewObjects("zgrid_from_grid", z, zgrid[z])]

\* the objects of the levels of the pyramid zgrid_from_grid returns, obj
\* being the objects of its input grid: every level and every column is made
\* by the default_factory of zgrid when "zgrid[zoom][x][y] = count" and
\* "zgrid[z - 1][...][...] += ..." first read it
zgrid_from_grid_objects(obj, zgrid, zoom) ==
    [z \in DOMAIN zgrid |-> NewObjects("zgrid_from_grid", z, zgrid[z])]

\* the objects of grid after grid_pformat read it, obj being its objects
\* before: a column the read created is a new dictionary
grid_pformat_objects(obj, grid) ==
    [self |-> obj.self,
     cols |-> [x \in DOMAIN grid |->
                IF x \in DOMAIN obj.cols THEN obj.cols[x]
                ELSE NewObjects("grid_pformat", 0, grid).cols[x]]]

\* the objects of the levels of zgrid after rzgrid_from_zgrid read it: a
\* level the read created is a new dictionary
rzgrid_from_zgrid_objects(objs, zgrid) ==
    [z \in DOMAIN zgrid |->
        IF z \in DOMAIN objs THEN objs[z]
        ELSE NewObjects("rzgrid_from_zgrid", z, zgrid[z])]

(***************************************************************************)
(* The ingest side of crimedb: the crime records of core.py, the Socrata   *)
(* pager of socrata.py, the MapQuest geocoder of geocoding.py and the      *)
(* download and process steps of the regions.  Python's None and the       *)
(* values it stands in for are records of one shape, told apart by their   *)
(* field kind.                                                             *)
(***************************************************************************)
\* ------------------------------------------------------------- crime records
\* None where a location is expected
NoLocation == [kind |-> "None", items |-> <<>>]

\* a (lon, lat) tuple, and a [lon, lat] list
TupleLocation(lon, lat) == [kind |-> "tuple", items |-> <<lon, lat>>]
ListLocation(lon, lat) == [kind |-> "list", items |-> <<lon, lat>>]

\* None where a time is expected
NoTime == [kind |-> "None", wall |-> 0, microsecond |-> 0,
           tzinfo |-> [aware |-> FALSE, utcoffset |-> 0, name |-> "None"]]

\* a datetime.datetime: its wall clock reading in whole seconds, its
\* microsecond, and its tzinfo with the offset from UTC in hours
DateTime(wall, microsecond, tzinfo) ==
    [kind |-> "datetime", wall |-> wall, microsecond |-> microsecond,
     tzinfo |-> tzinfo]

\* tzinfo=None, a pytz zone and the datetime.timezone strptime builds for %z
NaiveTz == [aware |-> FALSE, utcoffset |-> 0, name |-> "None"]
ZoneTz(name, utcoffset) == [aware |-> TRUE, utcoffset |-> utcoffset, name |-> name]
FixedTz(utcoffset) == [aware |-> TRUE, utcoffset |-> utcoffset, name |-> "timezone"]

\* a == b on two times: two aware datetimes are equal when they are the same
\* instant, two naive ones when they read the same, and a naive one never
\* equals an aware one
TimeEq(a, b) ==
    IF a.kind = "None" \/ b.kind = "None" THEN a.kind = b.kind
    ELSE /\ a.tzinfo.aware = b.tzinfo.aware
         /\ a.microsecond = b.microsecond
         /\ IF a.tzinfo.aware
            THEN a.wall - a.tzinfo.utcoffset = b.wall - b.tzinfo.utcoffset
            ELSE a.wall = b.wall

\* a == b on two locations: a tuple never equals a list
LocationEq(a, b) == a.kind = b.kind /\ a.items = b.items

\* bool(location): None and an empty sequence are false
Truthy(location) == location.kind # "None" /\ location.items # <<>>

\* Crime(description, time, location)
CrimeOf(description, time, location) ==
    [description |-> description, time |-> time, location |-> location]

\* time.strftime(RFC3999_STRFTIME_FORMAT): the text of the wall clock reading
\* down to the second, followed by the text of %z, which is the offset of an
\* aware datetime and empty for a naive one; the microsecond is not written
strftime(time) ==
    [ymdhms |-> time.wall,
     z |-> IF time.tzinfo.aware THEN <<time.tzinfo.utcoffset>> ELSE <<>>]

\* datetime.datetime.strptime(text, RFC3999_STRFTIME_FORMAT) raises
\* ValueError: %z matches no empty text
strptime_raises(text) == text.z = <<>>

\* datetime.datetime.strptime(text, RFC3999_STRFTIME_FORMAT)
strptime(text) == DateTime(text.ymdhms, 0, FixedTz(text.z[1]))

\* crime2json_obj raises AttributeError: None has no strftime
crime2json_obj_raises(crime) == crime.time.kind = "None"

\* crime2json_obj(crime)
crime2json_obj(crime) ==
    LET jo == [description |-> crime.description, time |-> strftime(crime.time)]
    IN  IF Truthy(crime.location)
        THEN [k \in {"description", "time", "geo"} |->
                IF k = "geo"
                THEN [type |-> "Point", coordinates |-> crime.location]
                ELSE jo[k]]
        ELSE jo

\* the location of json_obj2crime(jo): tuple(jo['geo']['coordinates']) if jo
\* has the key 'geo', None otherwise
json_obj2crime_location(jo) ==
    IF "geo" \in DOMAIN jo
    THEN [kind |-> "tuple", items |-> jo["geo"].coordinates.items]
    ELSE NoLocation

\* json_obj2crime(jo)
json_obj2crime(jo) ==
    CrimeOf(jo["description"], strptime(jo["time"]), json_obj2crime_location(jo))

\* -------------------------------------------------------------- Socrata pager
\* min(a, b)
Min(a, b) == IF a <= b THEN a ELSE b

\* the rows the server returns for "$offset=offset&$limit=PAGESZ" on a
\* dataset: at most PAGESZ rows from row offset on
dataset_page(dataset, offset) ==
    SubSeq(dataset, offset + 1, Min(offset + PAGESZ, Len(dataset)))

\* dataset_rows_break with "if len(rows) == 0"
dataset_rows_break_on_empty(rows) == Len(rows) = 0

\* "if len(rows) < __PAGESZ: break" of dataset_rows
dataset_rows_break(rows) == Len(rows) < PAGESZ

RECURSIVE dataset_rows_from(_, _)
\* the rows dataset_rows yields from offset on, when it is iterated to its end
dataset_rows_from(dataset, offset) ==
    LET rows == dataset_page(dataset, offset)
    IN  IF dataset_rows_break(rows) THEN rows
        ELSE rows \o dataset_rows_from(dataset, offset + Len(rows))

\* the rows dataset_rows(api_host, dataset_id) yields
dataset_rows(dataset) == dataset_rows_from(dataset, 0)

\* ------------------------------------------------------------------ geocoder
\* None where a GeoJSON object is expected
NoPoint == [type |-> "None", coordinates |-> <<>>]

\* {'type': 'Point', 'coordinates': [lng, lat]}
GeoPoint(lng, lat) == [type |-> "Point", coordinates |-> <<lng, lat>>]

\* what __geocode_batch yields for one location of a batch the service
\* answered with status code 0: the point of its first location, None if the
\* service found no location for it; address "a0" is one the service finds
\* no location for, "a1" and "a2" are found at different points
geocode_result(loc) ==
    IF loc = "a0" THEN NoPoint
    ELSE IF loc = "a1" THEN GeoPoint(1, 1)
    ELSE GeoPoint(2, 2)

\* the items __geocode_batch(key, locations, shape) yields, statuscode being
\* ro['info']['statuscode']: for a status other than 0 the loop "for _ in
\* locations: yield None; return" returns after its first yield
geocode_batch(locations, statuscode) ==
    IF statuscode # 0
    THEN IF locations = <<>> THEN <<>> ELSE <<NoPoint>>
    ELSE [i \in 1..Len(locations) |-> geocode_result(locations[i])]

\* [l for l in islice(loc_iter, batch_size)] and what it leaves in loc_iter
loc_slice(rest, batch_size) == SubSeq(rest, 1, Min(batch_size, Len(rest)))
loc_rest(rest, batch_size) == SubSeq(rest, Min(batch_size, Len(rest)) + 1, Len(rest))

RECURSIVE geocode_mapquest_items(_, _, _)
\* the items geocode_mapquest(key, locations, batch_size=batch_size) yields
\* before its loop finds loc_slice empty, statuscodes being the status codes
\* of the requests in their order
geocode_mapquest_items(locations, batch_size, statuscodes) ==
    IF loc_slice(locations, batch_size) = <<>> THEN <<>>
    ELSE geocode_batch(loc_slice(locations, batch_size), Head(statuscodes))
         \o geocode_mapquest_items(loc_rest(locations, batch_size), batch_size,
                                   Tail(statuscodes))

\* the number of requests geocode_mapquest sends for n locations
geocode_requests(n, batch_size) == (n + batch_size - 1) \div batch_size

\* the items geocode_null(locations) yields
geocode_null(locations) == [i \in 1..Len(locations) |-> NoPoint]

\* ------------------------------------------------------------------- regions
\* the values of a sequence
Range(seq) == {seq[i] : i \in 1..Len(seq)}

\* a row of a raw file of stl: whether XCoord and YCoord are other than 0,
\* and "ILEADSAddress ILEADSStreet", "" when one of the two is blank
RawRow(coords, address) == [coords |-> coords, address |-> address]

\* a record of the intermediate files: the row or incident it was made of
\* and the location of its crime
Record(row, loc) == [row |-> row, loc |-> loc]

\* the location _PROJ returns for the coordinates of a row
ProjLocation == TupleLocation(-90, 38)

\* loc['coordinates'] of an item a geocoder yielded, None for None
item_location(item) ==
    IF item.type = "None" THEN NoLocation
    ELSE ListLocation(item.coordinates[1], item.coordinates[2])

\* the rows _process_raw_file appends to geocoding_needed, by their number
geocoding_needed(rows) ==
    SelectSeq([i \in 1..Len(rows) |-> i],
              LAMBDA i : ~rows[i].coords /\ rows[i].address # "")

\* the records the first loop of _process_raw_file writes
direct_records(rows) ==
    LET direct == SelectSeq([i \in 1..Len(rows) |-> i],
                            LAMBDA i : rows[i].coords \/ rows[i].address = "")
    IN  [k \in 1..Len(direct) |->
            Record(direct[k], IF rows[direct[k]].coords THEN ProjLocation
                              ELSE NoLocation)]

\* the items of geocoder(map(crime_dict_loc, geocoding_needed)) that zip can
\* draw before the generator ends
geocoder_items(gc, locs, bsize, codes) ==
    IF gc = "geocode_null" THEN geocode_null(locs)
    ELSE geocode_mapquest_items(locs, bsize, codes)

\* the records the second loop of _process_raw_file writes: zip pairs the
\* rows of geocoding_needed with the items of the geocoder by position
geocoded_records(rows, gc, bsize, codes) ==
    LET needed == geocoding_needed(rows)
        its == geocoder_items(gc, [k \in 1..Len(needed) |-> rows[needed[k]].address],
                              bsize, codes)
    IN  [k \in 1..Min(Len(needed), Len(its)) |->
            Record(needed[k], item_location(its[k]))]

\* zip asks the geocoder for one more item after its last: geocode_mapquest
\* then runs into the undefined name of its loop
process_raw_file_raises(rows, gc, bsize, codes) ==
    /\ gc = "geocode_mapquest"
    /\ Len(geocoded_records(rows, gc, bsize, codes)) < Len(geocoding_needed(rows))

\* the records _process_raw_file(file_path, geocoder) appends
process_raw_file(rows, gc, bsize, codes) ==
    direct_records(rows) \o geocoded_records(rows, gc, bsize, codes)

\* the records process() of stlco and of dallas appends for the incidents
\* file: one per line; the location is left out of the model
process_records(incs) == [i \in 1..Len(incs) |-> Record(incs[i], NoLocation)]

\* the first rows of a sequence
Take(seq, n) == SubSeq(seq, 1, Min(n, Len(seq)))

\* the features the service of stlco returns for "GlobalID > last_gid",
\* ordered by GlobalID: the ids are in that order in rem
stlco_features(rem, last_gid) ==
    Take(SelectSeq(rem, LAMBDA id : id > last_gid), PAGESZ)

RECURSIVE stlco_download(_, _, _)
\* the ids download() of stlco appends to the incidents file, gids being the
\* ids it found in the file when it started
stlco_download(rem, last_gid, gids) ==
    LET features == stlco_features(rem, last_gid)
    IN  IF features = <<>> THEN <<>>
        ELSE SelectSeq(features, LAMBDA id : id \notin gids)
             \o stlco_download(rem, features[Len(features)], gids)

\* the ids download() of dallas appends to the incidents file
dallas_download(rem, gids) ==
    SelectSeq(dataset_rows(rem), LAMBDA id : id \notin gids)

\* download() of a region
download(reg, rem, incs) ==
    IF reg = "stlco" THEN stlco_download(rem, 0, Range(incs))
    ELSE dallas_download(rem, Range(incs))

\* ------------------------------------------------------------------- inputs
\* the points the point source hands to grid_from_crimes, in degrees: one on
\* the equator, one north of the Mercator square, one on the antimeridian and
\* the south pole
CrimeDegrees == {<<0, 0>>, <<0, 89>>, <<180, 0>>, <<0, -90>>}
CrimePoints == {Crime(Longitude(d[1]), Latitude(d[2])) : d \in CrimeDegrees}
CrimeSeqs == UNION {[1..k -> CrimePoints] : k \in 0..MaxCrimes}

\* the lists GridTests hands to _list_to_grid: rectangular, as its fixtures,
\* here one cell, one row of two and one column of two
ListShapes == {<<1, 1>>, <<1, 2>>, <<2, 1>>}
ListCounts == 0..1
Lists == UNION {[1..s[1] -> [1..s[2] -> ListCounts]] : s \in ListShapes}

\* the tiles (zoom, x, y) handed to rzgrid_to_geojson: the tiles that have a
\* block, and tile (0, 0) of zoom level 0 whether or not it has one
GeoKeys(rzgrid) ==
    UNION {UNION {{<<z, x, y>> : y \in DOMAIN rzgrid[z][x]} : x \in DOMAIN rzgrid[z]} :
           z \in DOMAIN rzgrid}
    \cup {<<0, 0, 0>>}

\* the points handed to the projector, in degrees: longitudes of [-180, 180]
\* and latitudes of (-90, 90)
TileLons == {-180, -90, 0, 90, 180}
TileLats == {89, 85, 66, 0, -66, -85, -89}
TilePoints == {<<Longitude(lo), Latitude(la)>> : lo \in TileLons, la \in TileLats}

\* -------------------------------------------------------------------- state
VARIABLES
    op,          \* the function called last
    raised,      \* the exception that call raised, "none" if it returned
    zoom,        \* the zoom level of the run
    crimes,      \* the crimes handed to grid_from_crimes, if it was called last
    grids,       \* the grids built so far, the arguments of grid_add
    grid,        \* the grid grid_add returned, the seed of the pyramid
    min_zoom,    \* the min_zoom handed to zgrid_from_grid
    zgrid,       \* the pyramid zgrid_from_grid returned
    zoom_depth,  \* the zoom_depth handed to rzgrid_from_zgrid
    rzgrid,      \* the blocks rzgrid_from_zgrid returned
    gridsObj,    \* the objects of each grid of grids
    gridObj,     \* the objects of grid
    zgridObj,    \* the objects of each level of zgrid
    gtile,       \* the (zoom, x, y) handed to the last rzgrid_to_geojson
    gjos,        \* the list that call returned
    calls,       \* the number of rzgrid_to_geojson calls so far
    pretty,      \* the rows grid_pformat returned
    pt,          \* projector: the point (lon, lat) at hand
    tile,        \* projector: the tile (x, y) at hand
    orig,        \* projector: the tile pt is the corner of, <<>> if none
    crime,       \* core: the Crime handed to crime2json_obj
    jo,          \* core: the JSON object crime2json_obj returned
    back,        \* core: the Crime json_obj2crime returned for jo
    dataset,     \* pager: the rows of the remote dataset
    offset,      \* pager: the local offset of dataset_rows
    requests,    \* pager: the offsets requested so far
    pages,       \* pager: the pages fetched so far
    yielded,     \* pager: the rows yielded so far
    locations,   \* geocoder: the locations handed to geocode_mapquest
    batch_size,  \* geocoder: its batch_size
    loc_iter,    \* geocoder: the locations loc_iter has not handed out yet
    statuscodes, \* geocoder: the status codes of the requests sent so far
    items,       \* geocoder: the items yielded so far
    region,      \* region: the region module at hand, "none" if none
    raw,         \* region: the rows of the raw file of stl
    geocoder,    \* region: the geocoder handed to process of stl
    remote,      \* region: the ids the remote source returned on the last run
    incidents,   \* region: the ids of the records of the incidents file
    intermediate,\* region: the records of the intermediate files
    runs         \* region: the number of download runs so far

vars == <<op, raised, zoom, crimes, grids, grid, min_zoom, zgrid, zoom_depth,
          rzgrid, gridsObj, gridObj, zgridObj, gtile, gjos, calls, pretty, pt, tile,
          orig, crime, jo, back, dataset, offset, requests, pages, yielded,
          locations, batch_size, loc_iter, statuscodes, items, region, raw,
          geocoder, remote, incidents, intermediate, runs>>

pipeVars == <<crimes, grids, grid, min_zoom, zgrid, zoom_depth, rzgrid>>
objVars == <<gridsObj, gridObj, zgridObj>>
geoVars == <<gtile, gjos, calls>>
fmtVars == <<pretty>>
tileVars == <<pt, tile, orig>>
coreVars == <<crime, jo, back>>
pagerVars == <<dataset, offset, requests, pages, yielded>>
geocodeVars == <<locations, batch_size, loc_iter, statuscodes, items>>
regionVars == <<region, raw, geocoder, remote, incidents, intermediate, runs>>
ingestVars == <<coreVars, pagerVars, geocodeVars, regionVars>>
wwwVars == <<zoom, pipeVars, objVars, geoVars, fmtVars, tileVars>>

BuildOps == {"start", "grid_from_crimes", "_list_to_grid"}

\* nothing of the tile side has run
WwwIdle ==
    /\ crimes = <<>>
    /\ grids = <<>>
    /\ grid = EmptyDict
    /\ min_zoom = 0
    /\ zgrid = EmptyDict
    /\ zoom_depth = 0
    /\ rzgrid = EmptyDict
    /\ gridsObj = <<>>
    /\ gridObj = NewObjects("start", 0, EmptyDict)
    /\ zgridObj = EmptyDict
    /\ gtile = <<>>
    /\ gjos = <<>>
    /\ calls = 0
    /\ pretty = <<>>
    /\ pt = <<0, Latitude(0)>>
    /\ tile = <<>>
    /\ orig = <<>>

\* nothing of the ingest side has run
IngestIdle ==
    /\ crime = CrimeOf("", NoTime, NoLocation)
    /\ jo = [description |-> "", time |-> [ymdhms |-> 0, z |-> <<>>]]
    /\ back = CrimeOf("", NoTime, NoLocation)
    /\ dataset = <<>>
    /\ offset = 0
    /\ requests = <<>>
    /\ pages = <<>>
    /\ yielded = <<>>
    /\ locations = <<>>
    /\ batch_size = 1
    /\ loc_iter = <<>>
    /\ statuscodes = <<>>
    /\ items = <<>>
    /\ region = "none"
    /\ raw = <<>>
    /\ geocoder = "none"
    /\ remote = <<>>
    /\ incidents = <<>>
    /\ intermediate = <<>>
    /\ runs = 0

Init ==
    /\ op = "start"
    /\ raised = "none"
    /\ zoom \in 0..MaxZoom
    /\ WwwIdle
    /\ IngestIdle

\* a batch of crimes is turned into a grid
GridFromCrimes ==
    /\ op \in BuildOps
    /\ raised = "none"
    /\ Len(grids) < MaxGrids
    /\ \E cs \in CrimeSeqs :
        /\ crimes' = cs
        /\ IF grid_from_crimes_raises(cs)
           THEN raised' = "ValueError" /\ grids' = grids /\ gridsObj' = gridsObj
           ELSE /\ raised' = raised
                /\ grids' = Append(grids, grid_from_crimes(cs, zoom))
                /\ gridsObj' = Append(gridsObj,
                        NewObjects("grids", Len(grids) + 1,
                                   grid_from_crimes(cs, zoom)))
    /\ op' = "grid_from_crimes"
    /\ UNCHANGED <<zoom, grid, min_zoom, zgrid, zoom_depth, rzgrid, gridObj,
                   zgridObj, geoVars, tileVars, fmtVars, ingestVars>>

\* a grid is written down as a list of rows, as the tests do; no batch of
\* crimes is at hand any longer
ListToGrid ==
    /\ op \in BuildOps
    /\ raised = "none"
    /\ Len(grids) < MaxGrids
    /\ \E l \in Lists :
        /\ grids' = Append(grids, list_to_grid(l))
        /\ gridsObj' = Append(gridsObj,
                NewObjects("grids", Len(grids) + 1, list_to_grid(l)))
    /\ op' = "_list_to_grid"
    /\ crimes' = <<>>
    /\ UNCHANGED <<raised, zoom, grid, min_zoom, zgrid, zoom_depth, rzgrid,
                   gridObj, zgridObj, geoVars, tileVars, fmtVars, ingestVars>>

\* the grids built so far are combined
GridAdd ==
    /\ op \in BuildOps
    /\ raised = "none"
    /\ grid' = grid_add(grids)
    /\ gridObj' = grid_add_objects(gridsObj, grid_add(grids))
    /\ op' = "grid_add"
    /\ crimes' = <<>>
    /\ UNCHANGED <<raised, zoom, grids, min_zoom, zgrid, zoom_depth, rzgrid,
                   gridsObj, zgridObj, geoVars, tileVars, fmtVars, ingestVars>>

\* the pyramid is built from the combined grid; the batches it was combined
\* from are not referenced any longer
ZgridFromGrid ==
    /\ op = "grid_add"
    /\ raised = "none"
    /\ \E mz \in (-1)..MaxZoom :
        /\ min_zoom' = mz
        /\ IF zgrid_from_grid_asserts(zoom, mz)
           THEN /\ raised' = raised
                /\ zgrid' = zgrid_from_grid(grid, zoom, mz)
                /\ zgridObj' = zgrid_from_grid_objects(gridObj,
                                    zgrid_from_grid(grid, zoom, mz), zoom)
           ELSE raised' = "AssertionError" /\ zgrid' = zgrid /\ zgridObj' = zgridObj
    /\ op' = "zgrid_from_grid"
    /\ crimes' = <<>>
    /\ grids' = <<>>
    /\ gridsObj' = <<>>
    /\ UNCHANGED <<zoom, grid, zoom_depth, rzgrid, gridObj, geoVars, tileVars,
                   fmtVars, ingestVars>>

\* the pyramid is partitioned into blocks
RzgridFromZgrid ==
    /\ op = "zgrid_from_grid"
    /\ raised = "none"
    /\ \E d \in 0..MaxDepth :
        /\ zoom_depth' = d
        /\ IF rzgrid_from_zgrid_asserts(zgrid, d)
           THEN /\ raised' = raised
                /\ rzgrid' = rzgrid_from_zgrid(zgrid, d)
                /\ zgrid' = rzgrid_from_zgrid_reads(zgrid, d)
                /\ zgridObj' = rzgrid_from_zgrid_objects(zgridObj,
                                    rzgrid_from_zgrid_reads(zgrid, d))
           ELSE /\ raised' = "AssertionError"
                /\ rzgrid' = rzgrid
                /\ zgrid' = zgrid
                /\ zgridObj' = zgridObj
    /\ op' = "rzgrid_from_zgrid"
    /\ UNCHANGED <<zoom, crimes, grids, grid, min_zoom, gridsObj, gridObj, geoVars,
                   tileVars, fmtVars, ingestVars>>

\* a tile is rendered
RzgridToGeojson ==
    /\ op \in {"rzgrid_from_zgrid", "rzgrid_to_geojson"}
    /\ raised = "none"
    /\ calls < MaxCalls
    /\ \E k \in GeoKeys(rzgrid) :
        /\ gtile' = k
        /\ gjos' = rzgrid_to_geojson(rzgrid, k[2], k[3], k[1], zoom_depth)
        /\ rzgrid' = rzgrid_to_geojson_reads(rzgrid, k[2], k[3], k[1], zoom_depth)
    /\ calls' = calls + 1
    /\ op' = "rzgrid_to_geojson"
    /\ UNCHANGED <<raised, zoom, crimes, grids, grid, min_zoom, zgrid, zoom_depth,
                   objVars, tileVars, fmtVars, ingestVars>>

\* the combined grid is printed
GridPformat ==
    /\ op = "grid_add"
    /\ raised = "none"
    /\ IF grid_pformat_raises(grid)
       THEN raised' = "ValueError" /\ UNCHANGED <<grid, gridObj, pretty>>
       ELSE /\ raised' = raised
            /\ pretty' = grid_pformat(grid)
            /\ grid' = grid_pformat_reads(grid)
            /\ gridObj' = grid_pformat_objects(gridObj, grid_pformat_reads(grid))
    /\ op' = "grid_pformat"
    /\ UNCHANGED <<zoom, crimes, grids, min_zoom, zgrid, zoom_depth, rzgrid,
                   gridsObj, zgridObj, geoVars, tileVars, ingestVars>>

\* a tile of the zoom level is turned into the point of its corner
PointFromSlippyTileCoordinates ==
    /\ op = "start"
    /\ \E x \in 0..(Pow2(zoom) - 1), y \in 0..(Pow2(zoom) - 1), rnd \in Roundings :
        /\ pt' = point_from_slippy_tile_coordinates(x, y, zoom, rnd)
        /\ orig' = <<x, y>>
    /\ op' = "point_from_slippy_tile_coordinates"
    /\ UNCHANGED <<raised, zoom, tile, pipeVars, objVars, geoVars, fmtVars, ingestVars>>

\* a point is projected to its tile: a point of the input, or the corner
\* point_from_slippy_tile_coordinates has just returned
SlippyTileCoordinatesFromPoint ==
    /\ op \in {"start", "point_from_slippy_tile_coordinates"}
    /\ \E p \in (IF op = "start" THEN TilePoints ELSE {pt}) :
        /\ pt' = p
        /\ IF slippy_tile_coordinates_raises(p[2])
           THEN raised' = "ValueError" /\ tile' = tile
           ELSE raised' = raised
                /\ tile' = slippy_tile_coordinates_from_point(p[1], p[2], zoom)
    /\ op' = "slippy_tile_coordinates_from_point"
    /\ UNCHANGED <<zoom, orig, pipeVars, objVars, geoVars, fmtVars, ingestVars>>

Next ==
    \/ GridFromCrimes
    \/ ListToGrid
    \/ GridAdd
    \/ ZgridFromGrid
    \/ RzgridFromZgrid
    \/ RzgridToGeojson
    \/ GridPformat
    \/ PointFromSlippyTileCoordinates
    \/ SlippyTileCoordinatesFromPoint

Spec == Init /\ [][Next]_vars

\* ------------------------------------------------------------- ingest inputs
\* a time without tzinfo and one in US/Central, with and without microseconds
CrimeTimes ==
    {NoTime} \cup {DateTime(0, us, tz) : us \in {0, 500000},
                                         tz \in {NaiveTz, ZoneTz("US/Central", -360)}}
CrimeLocations ==
    {NoLocation, TupleLocation(-90, 38), ListLocation(-90, 38),
     [kind |-> "tuple", items |-> <<>>]}
IngestCrimes == {CrimeOf("THEFT", t, l) : t \in CrimeTimes, l \in CrimeLocations}

\* datasets of distinct rows
Datasets == {[i \in 1..n |-> i] : n \in 0..MaxRows}

\* addresses and the status codes of the geocoding service
Addresses == {"a0", "a1", "a2"}
LocationSeqs == UNION {[1..n -> Addresses] : n \in 0..MaxLocs}
StatusCodes == {0, 400}
StatusSeqs(n) == [1..n -> StatusCodes]

\* raw files of stl
RawRows == {RawRow(TRUE, "a1"), RawRow(FALSE, ""), RawRow(FALSE, "a1"),
            RawRow(FALSE, "a2")}
RawFiles == UNION {[1..n -> RawRows] : n \in 0..MaxLocs}
Geocoders == {"geocode_mapquest", "geocode_null"}

\* what a remote source returns on one run: ids, some of them twice; the
\* service of stlco returns them in their order
RemoteIds == {1, 2}
Remotes(reg) ==
    {rem \in UNION {[1..n -> RemoteIds] : n \in 0..MaxLocs} :
        reg = "stlco" => \A i \in 1..(Len(rem) - 1) : rem[i] <= rem[i + 1]}

\* ------------------------------------------------------------ ingest actions
\* a Crime is turned into its JSON object
Crime2JsonObj ==
    /\ op = "start"
    /\ \E c \in IngestCrimes :
        /\ crime' = c
        /\ IF crime2json_obj_raises(c)
           THEN raised' = "AttributeError" /\ jo' = jo
           ELSE raised' = raised /\ jo' = crime2json_obj(c)
    /\ op' = "crime2json_obj"
    /\ UNCHANGED <<back, pagerVars, geocodeVars, regionVars, wwwVars>>

\* the JSON object is turned back into a Crime
JsonObj2Crime ==
    /\ op = "crime2json_obj"
    /\ raised = "none"
    /\ IF strptime_raises(jo["time"])
       THEN raised' = "ValueError" /\ back' = back
       ELSE raised' = raised /\ back' = json_obj2crime(jo)
    /\ op' = "json_obj2crime"
    /\ UNCHANGED <<crime, jo, pagerVars, geocodeVars, regionVars, wwwVars>>

\* dataset_rows is called on a dataset
DatasetRows ==
    /\ op = "start"
    /\ dataset' \in Datasets
    /\ offset' = 0
    /\ op' = "dataset_rows"
    /\ UNCHANGED <<raised, requests, pages, yielded, coreVars, geocodeVars,
                   regionVars, wwwVars>>

\* one turn of the loop of dataset_rows: a page is fetched, its rows are
\* yielded, and the loop ends or moves the offset on
DatasetRowsPage ==
    /\ op = "dataset_rows"
    /\ LET rows == dataset_page(dataset, offset)
       IN  /\ requests' = Append(requests, offset)
           /\ pages' = Append(pages, rows)
           /\ yielded' = yielded \o rows
           /\ IF dataset_rows_break(rows)
              THEN op' = "dataset_rows.return" /\ offset' = offset
              ELSE op' = op /\ offset' = offset + Len(rows)
    /\ UNCHANGED <<raised, dataset, coreVars, geocodeVars, regionVars, wwwVars>>

\* geocode_mapquest is called on locations
GeocodeMapquest ==
    /\ op = "start"
    /\ \E locs \in LocationSeqs, bsize \in 1..MaxBatch :
        /\ locations' = locs
        /\ loc_iter' = locs
        /\ batch_size' = bsize
    /\ op' = "geocode_mapquest"
    /\ UNCHANGED <<raised, statuscodes, items, coreVars, pagerVars, regionVars,
                   wwwVars>>

\* one turn of the loop of geocode_mapquest: a batch is cut off loc_iter and
\* its items are yielded; on an empty batch the loop evaluates the name breae
GeocodeMapquestBatch ==
    /\ op = "geocode_mapquest"
    /\ IF loc_slice(loc_iter, batch_size) = <<>>
       THEN /\ raised' = "NameError"
            /\ op' = "geocode_mapquest.end"
            /\ UNCHANGED <<loc_iter, statuscodes, items>>
       ELSE /\ \E code \in StatusCodes :
                /\ items' = items \o geocode_batch(loc_slice(loc_iter, batch_size), code)
                /\ statuscodes' = Append(statuscodes, code)
            /\ loc_iter' = loc_rest(loc_iter, batch_size)
            /\ UNCHANGED <<op, raised>>
    /\ UNCHANGED <<locations, batch_size, coreVars, pagerVars, regionVars, wwwVars>>

\* _process_raw_file of stl runs on a raw file with a geocoder: run, the
\* second run on the same file included, appends to the intermediate files
ProcessRawFileRun(rows, gc, bsize) ==
    \E codes \in StatusSeqs(IF gc = "geocode_null" THEN 0
                            ELSE geocode_requests(Len(geocoding_needed(rows)), bsize)) :
        /\ intermediate' = intermediate \o process_raw_file(rows, gc, bsize, codes)
        /\ statuscodes' = codes
        /\ raised' = IF process_raw_file_raises(rows, gc, bsize, codes)
                     THEN "NameError" ELSE "none"

ProcessRawFile ==
    /\ op = "start"
    /\ \E rows \in RawFiles, gc \in Geocoders :
      \E bsize \in (IF gc = "geocode_null" THEN {1} ELSE 1..MaxBatch) :
        /\ raw' = rows
        /\ geocoder' = gc
        /\ batch_size' = bsize
        /\ ProcessRawFileRun(rows, gc, bsize)
    /\ region' = "stl"
    /\ op' = "_process_raw_file"
    /\ UNCHANGED <<locations, loc_iter, items, remote, incidents, runs, coreVars,
                   pagerVars, wwwVars>>

\* process() of stlco or dallas runs on an incidents file: it appends the
\* record of each line and may be interrupted after any of them
ProcessRun ==
    \E k \in 0..Len(incidents') :
        /\ intermediate' = intermediate \o Take(process_records(incidents'), k)
        /\ raised' = IF k < Len(incidents') THEN "KeyboardInterrupt" ELSE "none"

Process ==
    /\ op = "start"
    /\ region' \in {"stlco", "dallas"}
    /\ \E n \in 0..MaxLocs : incidents' = [i \in 1..n |-> i]
    /\ ProcessRun
    /\ op' = "process"
    /\ UNCHANGED <<raw, geocoder, remote, runs, coreVars, pagerVars, geocodeVars,
                   wwwVars>>

\* process() is executed again after a run that completed or was interrupted
ProcessAgain ==
    /\ op \in {"process", "_process_raw_file"}
    /\ IF region = "stl"
       THEN ProcessRawFileRun(raw, geocoder, batch_size) /\ incidents' = incidents
       ELSE incidents' = incidents /\ ProcessRun /\ statuscodes' = statuscodes
    /\ op' = "process.again"
    /\ UNCHANGED <<region, raw, geocoder, remote, runs, batch_size, locations,
                   loc_iter, items, coreVars, pagerVars, wwwVars>>

\* download() of stlco or dallas runs against what the remote source returns
Download ==
    /\ op \in {"start", "download"}
    /\ runs < MaxRuns
    /\ region' \in (IF op = "start" THEN {"stlco", "dallas"} ELSE {region})
    /\ remote' \in Remotes(region')
    /\ incidents' = incidents \o download(region', remote', incidents)
    /\ runs' = runs + 1
    /\ op' = "download"
    /\ UNCHANGED <<raised, raw, geocoder, intermediate, coreVars, pagerVars,
                   geocodeVars, wwwVars>>

InitIngest ==
    /\ op = "start"
    /\ raised = "none"
    /\ zoom = 0
    /\ WwwIdle
    /\ IngestIdle

NextIngest ==
    \/ Crime2JsonObj
    \/ JsonObj2Crime
    \/ DatasetRows
    \/ DatasetRowsPage
    \/ GeocodeMapquest
    \/ GeocodeMapquestBatch
    \/ ProcessRawFile
    \/ Process
    \/ ProcessAgain
    \/ Download

\* the consumer of dataset_rows iterates it to its end
SpecIngest == InitIngest /\ [][NextIngest]_vars /\ WF_vars(DatasetRowsPage)

\* =================================================================== claims
\* the latest grid a builder appended to grids
LastGrid == grids[Len(grids)]

\* (x, y) is a tile of zoom level z
TileInRange(t, z) == 0 <= t[1] /\ t[1] < Pow2(z) /\ 0 <= t[2] /\ t[2] < Pow2(z)

\* a crime lies on a pole
OnPole(c) == c.geo.coordinates[2] \in {Latitude(90), Latitude(-90)}

\* the grid at level z of the pyramid, empty if the pyramid has no such level
Level(z) == DictGet(zgrid, z, EmptyDict)

\* the keys (z, x, y) of the blocks of a retile structure
BlockKeys(rz) ==
    UNION {UNION {{<<z, x, y>> : y \in DOMAIN rz[z][x]} : x \in DOMAIN rz[z]} :
           z \in DOMAIN rz}

\* the block keyed k
Block(rz, k) == rz[k[1]][k[2]][k[3]]

\* no cell of the grid is stored with count 0
NoZero(g) == \A c \in GridItems(g) : g[c[1]][c[2]] # 0

RECURSIVE CountInAll(_, _, _)
\* the sum over a sequence of grids of their count at (x, y)
CountInAll(gs, x, y) ==
    IF gs = <<>> THEN 0
    ELSE GridCount(Head(gs), x, y) + CountInAll(Tail(gs), x, y)

\* C1: grid_add returns a grid whose cell (x, y) is the sum over its
\* arguments of their cell (x, y), a missing cell counting as 0, and that
\* holds no cell that is in none of its arguments.
C1_GridAddSums ==
    op = "grid_add" =>
        LET inputs == UNION {GridItems(grids[i]) : i \in 1..Len(grids)}
        IN  /\ GridItems(grid) = inputs
            /\ \A c \in inputs \cup GridItems(grid) :
                   GridCount(grid, c[1], c[2]) = CountInAll(grids, c[1], c[2])

\* C1 witness: two grids were added that share a cell counted in both and
\* differ in another cell
C1_Witness ==
    /\ op = "grid_add"
    /\ Len(grids) = 2
    /\ GridItems(grids[1]) # GridItems(grids[2])
    /\ \E c \in GridItems(grids[1]) \cap GridItems(grids[2]) :
           grids[1][c[1]][c[2]] > 0 /\ grids[2][c[1]][c[2]] > 0

\* C2: in the pyramid, for every level z from zoom down to min_zoom + 1 and
\* every cell (px, py), the count of (px, py) at level z - 1 is the sum of the
\* counts of the cells (x, y) of level z with floor(x / 2) = px and
\* floor(y / 2) = py, for every integer x and y.
C2_RollUpFloor ==
    (op = "zgrid_from_grid" /\ raised = "none") =>
        \A z \in (min_zoom + 1)..zoom :
            LET child == Level(z)
                parent == Level(z - 1)
                FloorParent(c) == <<c[1] \div 2, c[2] \div 2>>
                parents == GridItems(parent)
                               \cup {FloorParent(c) : c \in GridItems(child)}
            IN  \A q \in parents :
                    GridCount(parent, q[1], q[2])
                        = SumOver(child, {c \in GridItems(child) : FloorParent(c) = q})

\* C3: every block keyed (z, x, y) holds exactly the cells (xx, yy) of level
\* z + zoom_depth with x * p <= xx < (x + 1) * p and y * p <= yy < (y + 1) * p,
\* p = 2^zoom_depth, each at sub-index (xx - x * p, yy - y * p) with its count,
\* so every sub-index lies in [0, p) x [0, p).
C3_BlockContent ==
    (op = "rzgrid_from_zgrid" /\ raised = "none") =>
        \A k \in BlockKeys(rzgrid) :
            LET p == Pow2(zoom_depth)
                fine == Level(k[1] + zoom_depth)
                block == Block(rzgrid, k)
                inside == {c \in GridItems(fine) :
                              /\ k[2] * p <= c[1] /\ c[1] < (k[2] + 1) * p
                              /\ k[3] * p <= c[2] /\ c[2] < (k[3] + 1) * p}
            IN  /\ GridItems(block) = {<<c[1] - k[2] * p, c[2] - k[3] * p>> : c \in inside}
                /\ \A c \in inside :
                       GridCount(block, c[1] - k[2] * p, c[2] - k[3] * p) = fine[c[1]][c[2]]
                /\ \A s \in GridItems(block) :
                       0 <= s[1] /\ s[1] < p /\ 0 <= s[2] /\ s[2] < p

\* C3 witness: a partition with zoom_depth >= 1 has two blocks at one base
\* zoom, one of them holding two sub-cells
C3_Witness ==
    /\ op = "rzgrid_from_zgrid"
    /\ raised = "none"
    /\ zoom_depth >= 1
    /\ \E k \in BlockKeys(rzgrid) :
        /\ Cardinality(GridItems(Block(rzgrid, k))) >= 2
        /\ \E j \in BlockKeys(rzgrid) : j # k /\ j[1] = k[1]

\* C4: at every level z in [min_zoom, zoom] of the pyramid the counts sum to
\* the sum of the counts of the seed grid.
C4_PyramidConservation ==
    (op = "zgrid_from_grid" /\ raised = "none") =>
        \A z \in min_zoom..zoom : GridTotal(Level(z)) = GridTotal(grid)

\* C4 witness: a pyramid of three levels whose seed holds two counted cells
\* that roll up into one parent
C4_Witness ==
    /\ op = "zgrid_from_grid"
    /\ raised = "none"
    /\ zoom - min_zoom >= 2
    /\ \E c \in GridItems(grid), d \in GridItems(grid) :
        /\ c # d
        /\ grid[c[1]][c[2]] > 0
        /\ grid[d[1]][d[2]] > 0
        /\ PyInt(c[1], 2) = PyInt(d[1], 2)
        /\ PyInt(c[2], 2) = PyInt(d[2], 2)

\* C5: for every base zoom z in [min_zoom, zoom - zoom_depth], mapping every
\* sub-cell (sx, sy) of every block (z, x, y) back to (x * p + sx, y * p + sy)
\* gives exactly the grid of level z + zoom_depth: every fine cell is in
\* exactly one block, with its count, and no block holds another cell.
C5_PartitionConservation ==
    (op = "rzgrid_from_zgrid" /\ raised = "none") =>
        \A z \in min_zoom..(zoom - zoom_depth) :
            LET p == Pow2(zoom_depth)
                fine == Level(z + zoom_depth)
                keys == {k \in BlockKeys(rzgrid) : k[1] = z}
                Back(k) == {<<k[2] * p + s[1], k[3] * p + s[2],
                              Block(rzgrid, k)[s[1]][s[2]]>> :
                            s \in GridItems(Block(rzgrid, k))}
            IN  /\ UNION {Back(k) : k \in keys}
                       = {<<c[1], c[2], fine[c[1]][c[2]]>> : c \in GridItems(fine)}
                /\ \A c \in GridItems(fine) :
                       Cardinality({k \in keys :
                           <<c[1], c[2], fine[c[1]][c[2]]>> \in Back(k)}) = 1

\* C6: the sub-cell counts of each block (z, x, y) sum to the count of the
\* cell (x, y) of level z of the pyramid, for any zoom_depth.
C6_BlockSumsToCell ==
    (op = "rzgrid_from_zgrid" /\ raised = "none") =>
        \A k \in BlockKeys(rzgrid) :
            GridTotal(Block(rzgrid, k)) = GridCount(Level(k[1]), k[2], k[3])

\* C7: rzgrid_from_zgrid constructs a block keyed (z, x, y) for every base
\* zoom z in [min_zoom, zoom - zoom_depth] and every non-zero cell (x, y) of
\* level z, and for no other key.
C7_BlockKeys ==
    (op = "rzgrid_from_zgrid" /\ raised = "none") =>
        BlockKeys(rzgrid)
            = UNION {{<<z, c[1], c[2]>> :
                        c \in {d \in GridItems(Level(z)) : Level(z)[d[1]][d[2]] # 0}} :
                     z \in min_zoom..(zoom - zoom_depth)}

\* C8: no grid grid_from_crimes or grid_add returns, no level of a pyramid
\* and no block holds a cell stored with count 0.
C8_Sparsity ==
    /\ (op = "grid_from_crimes" /\ raised = "none") => NoZero(LastGrid)
    /\ op = "grid_add" => NoZero(grid)
    /\ (op = "zgrid_from_grid" /\ raised = "none") =>
           \A z \in DOMAIN zgrid : NoZero(zgrid[z])
    /\ (op = "rzgrid_from_zgrid" /\ raised = "none") =>
           \A k \in BlockKeys(rzgrid) : NoZero(Block(rzgrid, k))

\* C8 as amended: no function creates a cell stored with count 0.
\* grid_from_crimes returns none; grid_add, zgrid_from_grid and
\* rzgrid_from_zgrid return none when the grids handed to them hold none.
C8_NoZeroCreated ==
    /\ (op = "grid_from_crimes" /\ raised = "none") => NoZero(LastGrid)
    /\ (op = "grid_add" /\ \A i \in 1..Len(grids) : NoZero(grids[i])) => NoZero(grid)
    /\ (op = "zgrid_from_grid" /\ raised = "none" /\ NoZero(grid)) =>
           \A z \in DOMAIN zgrid : NoZero(zgrid[z])
    /\ (/\ op = "rzgrid_from_zgrid"
        /\ raised = "none"
        /\ \A z \in DOMAIN zgrid : NoZero(zgrid[z])) =>
           \A k \in BlockKeys(rzgrid) : NoZero(Block(rzgrid, k))

\* C8 witness: a pyramid without a stored 0 was partitioned with
\* zoom_depth >= 1 into blocks, one of which lacks a sub-cell of its range
C8_Witness ==
    /\ op = "rzgrid_from_zgrid"
    /\ raised = "none"
    /\ zoom_depth >= 1
    /\ GridItems(grid) # {}
    /\ \A z \in DOMAIN zgrid : NoZero(zgrid[z])
    /\ \E k \in BlockKeys(rzgrid) :
           Cardinality(GridItems(Block(rzgrid, k))) < Pow2(zoom_depth) * Pow2(zoom_depth)

\* C9: for every longitude in [-180, 180] and latitude in (-90, 90),
\* slippy_tile_coordinates_from_point returns a tile with 0 <= x, y < 2^zoom,
\* and grid_from_crimes stores no cell outside that range.
C9_TileCoordinatesInRange ==
    /\ (op = "slippy_tile_coordinates_from_point" /\ orig = <<>> /\ raised = "none")
            => TileInRange(tile, zoom)
    /\ (/\ op = "grid_from_crimes"
        /\ raised = "none"
        /\ \A i \in 1..Len(crimes) : ~OnPole(crimes[i]))
            => \A c \in GridItems(LastGrid) : TileInRange(c, zoom)

\* C10: slippy_tile_coordinates_from_point of the point
\* point_from_slippy_tile_coordinates returns for the tile (x, y) of a zoom
\* level is (x, y) again.
C10_RoundTrip ==
    (op = "slippy_tile_coordinates_from_point" /\ orig # <<>>) => tile = orig


\* the tile a crime projects to at zoom level z
TileOf(c, z) ==
    slippy_tile_coordinates_from_point(c.geo.coordinates[1], c.geo.coordinates[2], z)

\* C11: for a sequence of projectable points, the grid grid_from_crimes
\* returns holds exactly the tiles the points project to, the count of each
\* cell is the number of points of the sequence that project to that tile,
\* and the counts sum to the number of points.
C11_GridFromCrimesCounts ==
    (op = "grid_from_crimes" /\ raised = "none") =>
        /\ GridItems(LastGrid) = {TileOf(crimes[i], zoom) : i \in 1..Len(crimes)}
        /\ \A c \in GridItems(LastGrid) :
               LastGrid[c[1]][c[2]] =
                   Cardinality({i \in 1..Len(crimes) : TileOf(crimes[i], zoom) = c})
        /\ GridTotal(LastGrid) = Len(crimes)

\* C11 witness: a batch of two points that project to the same tile was
\* counted.
C11_Witness ==
    /\ op = "grid_from_crimes"
    /\ raised = "none"
    /\ Len(crimes) = 2
    /\ TileOf(crimes[1], zoom) = TileOf(crimes[2], zoom)
    /\ GridCount(LastGrid, TileOf(crimes[1], zoom)[1], TileOf(crimes[1], zoom)[2]) = 2

\* C12: grid_from_crimes does not raise on a sequence that holds a point on
\* a pole; the point is counted in no cell and every other point of the
\* sequence is counted in the cell of its tile.
C12_PolesSkipped ==
    op = "grid_from_crimes" =>
        /\ raised = "none"
        /\ \A c \in GridItems(LastGrid) :
               LastGrid[c[1]][c[2]] =
                   Cardinality({i \in 1..Len(crimes) :
                       ~OnPole(crimes[i]) /\ TileOf(crimes[i], zoom) = c})
        /\ GridTotal(LastGrid) =
               Cardinality({i \in 1..Len(crimes) : ~OnPole(crimes[i])})

\* C13: zgrid_from_grid called with min_zoom >= zoom or with min_zoom < 0
\* raises an error and returns no pyramid.
C13_ZoomOrderFailsFast ==
    (op = "zgrid_from_grid" /\ (min_zoom >= zoom \/ min_zoom < 0)) =>
        raised = "AssertionError" /\ zgrid = EmptyDict

\* C13 witness: zgrid_from_grid was called on a grid that holds a cell with
\* min_zoom equal to zoom, and raised.
C13_Witness ==
    /\ op = "zgrid_from_grid"
    /\ min_zoom = zoom
    /\ GridItems(grid) # {}
    /\ raised = "AssertionError"

\* C14: rzgrid_from_zgrid called with a zoom_depth greater than the depth
\* zoom - min_zoom of the pyramid raises an error.
C14_DepthFailsFast ==
    (op = "rzgrid_from_zgrid" /\ zoom_depth > zoom - min_zoom) =>
        raised = "AssertionError"

\* C15: grid_add of no grid returns a grid without a cell; for a grid
\* without a cell, zgrid_from_grid (0 <= min_zoom < zoom) raises nothing and
\* returns a pyramid without a cell, rzgrid_from_zgrid (zoom_depth <= zoom -
\* min_zoom) raises nothing and returns no block, and rzgrid_to_geojson
\* raises nothing and returns no polygon.
C15_EmptyInput ==
    /\ (op = "grid_add" /\ grids = <<>>) => grid = EmptyDict
    /\ (op = "zgrid_from_grid" /\ grid = EmptyDict /\ 0 <= min_zoom /\ min_zoom < zoom)
            => (raised = "none" /\ \A z \in DOMAIN zgrid : GridItems(zgrid[z]) = {})
    /\ (op = "rzgrid_from_zgrid" /\ grid = EmptyDict /\ zoom_depth <= zoom - min_zoom)
            => (raised = "none" /\ BlockKeys(rzgrid) = {})
    /\ (op = "rzgrid_to_geojson" /\ grid = EmptyDict)
            => (raised = "none" /\ gjos = <<>>)

\* C15 witness: the grid of no grids went through the whole chain, with a
\* zoom_depth of at least 1, and a tile was rendered.
C15_Witness ==
    /\ op = "rzgrid_to_geojson"
    /\ grid = EmptyDict
    /\ zoom_depth >= 1
    /\ raised = "none"
    /\ gjos = <<>>

\* the grids grid_add is handed as a third argument: the grids of the lists,
\* and the two arguments at hand
ThirdGrids == {list_to_grid(l) : l \in Lists} \cup {grids[i] : i \in 1..Len(grids)}

\* C16: grid_add(a, b) equals grid_add(b, a), and grid_add(grid_add(a, b), c)
\* equals grid_add(a, grid_add(b, c)) equals grid_add(a, b, c).
C16_GridAddOrderAndGrouping ==
    /\ (op = "grid_add" /\ Len(grids) = 2) =>
          LET a == grids[1]
              b == grids[2]
          IN  /\ grid = grid_add(<<b, a>>)
              /\ \A c \in ThirdGrids :
                    /\ grid_add(<<grid, c>>) = grid_add(<<a, grid_add(<<b, c>>)>>)
                    /\ grid_add(<<grid, c>>) = grid_add(<<a, b, c>>)
    /\ (op = "grid_add" /\ Len(grids) = 3) =>
          LET a == grids[1]
              b == grids[2]
              c == grids[3]
          IN  /\ grid = grid_add(<<grid_add(<<a, b>>), c>>)
              /\ grid = grid_add(<<a, grid_add(<<b, c>>)>>)
              /\ grid = grid_add(<<c, b, a>>)

\* C16 witness: two different grids that share a cell, with different
\* counts, were added.
C16_Witness ==
    /\ op = "grid_add"
    /\ Len(grids) = 2
    /\ \E c \in GridItems(grids[1]) \cap GridItems(grids[2]) :
           grids[1][c[1]][c[2]] # grids[2][c[1]][c[2]]
    /\ GridItems(grids[1]) # GridItems(grids[2])

\* the cells (x, y) a caller writes to in a grid: its cells, and cell (0, 0)
WriteCells(g) == GridItems(g) \cup {<<0, 0>>}

\* what the grid val, of objects obj, holds after a caller has executed
\* "h[x][y] += 1" on the grid hval, of objects hobj: a column is one object
\* in every grid that holds it, and so is the dictionary of the grid
AfterWrite(val, obj, hval, hobj, x, y) ==
    LET created == x \notin DOMAIN hval
        col == IF created THEN <<"caller", 0, x>> ELSE hobj.cols[x]
        same == obj.self = hobj.self
        val1 == IF created /\ same THEN DictSet(val, x, EmptyDict) ELSE val
        cols1 == IF created /\ same THEN DictSet(obj.cols, x, col) ELSE obj.cols
    IN  [k \in DOMAIN val1 |->
            IF cols1[k] = col
            THEN DictSet(val1[k], y, DictGet(val1[k], y, 0) + 1)
            ELSE val1[k]]

\* C17: grid_add(g) returns a grid equal to g; a later write to a cell of
\* the result leaves g as it was, and a later write to a cell of g leaves the
\* result as it was.
C17_GridAddCopy ==
    (op = "grid_add" /\ Len(grids) = 1) =>
        LET g == grids[1]
            gobj == gridsObj[1]
        IN  /\ grid = g
            /\ \A c \in WriteCells(grid) :
                   AfterWrite(g, gobj, grid, gridObj, c[1], c[2]) = g
            /\ \A c \in WriteCells(g) :
                   AfterWrite(grid, gridObj, g, gobj, c[1], c[2]) = grid

\* C17 witness: grid_add was called with one grid that holds a cell, and a
\* write to that cell of the result changes the result.
C17_Witness ==
    /\ op = "grid_add"
    /\ Len(grids) = 1
    /\ \E c \in GridItems(grid) :
           AfterWrite(grid, gridObj, grid, gridObj, c[1], c[2])
               = GridIncrement(grids[1], c[1], c[2], 1)

\* C18: level zoom of the pyramid zgrid_from_grid returns equals the input
\* grid cell for cell; no level of the pyramid shares an object with the
\* input, so that a later write to a cell of the input leaves every level as
\* it was and a later write to a cell of a level leaves the input as it was;
\* and the call leaves the input grid as it was.
C18_SeedIsIndependentCopy ==
    /\ []((op = "zgrid_from_grid" /\ raised = "none") =>
            /\ zoom \in DOMAIN zgrid
            /\ GridItems(zgrid[zoom]) = GridItems(grid)
            /\ \A c \in GridItems(grid) : zgrid[zoom][c[1]][c[2]] = grid[c[1]][c[2]]
            /\ \A z \in DOMAIN zgrid :
                  /\ \A c \in WriteCells(grid) :
                        AfterWrite(zgrid[z], zgridObj[z], grid, gridObj, c[1], c[2])
                            = zgrid[z]
                  /\ \A c \in WriteCells(zgrid[z]) :
                        AfterWrite(grid, gridObj, zgrid[z], zgridObj[z], c[1], c[2])
                            = grid)
    /\ [][op' = "zgrid_from_grid" => grid' = grid]_vars

\* C18 witness: a pyramid was built from a grid that holds a cell, and a
\* write to that cell of level zoom changes level zoom.
C18_Witness ==
    /\ op = "zgrid_from_grid"
    /\ raised = "none"
    /\ \E c \in GridItems(grid) :
           AfterWrite(zgrid[zoom], zgridObj[zoom], zgrid[zoom], zgridObj[zoom], c[1], c[2])
               = GridIncrement(grid, c[1], c[2], 1)

\* C19: rzgrid_from_zgrid leaves the pyramid it is handed as it was: the
\* same levels, columns, cells and counts after the call as before it.
C19_PyramidReadOnly ==
    [][op' = "rzgrid_from_zgrid" => zgrid' = zgrid]_vars

\* C20: rzgrid_to_geojson leaves the retile structure as it was: the same
\* blocks, sub-columns, sub-cells and counts after the call as before it.
C20_RetileReadOnly ==
    [][op' = "rzgrid_to_geojson" => rzgrid' = rzgrid]_vars

\* the block rzgrid_to_geojson renders for the tile k = (zoom, x, y), without
\* a cell if the retile structure holds no such block
BlockAt(rz, k) ==
    LET lz == DictGet(rz, k[1], EmptyDict)
        lx == DictGet(lz, k[2], EmptyDict)
    IN  DictGet(lx, k[3], EmptyDict)

\* C21: the list rzgrid_to_geojson returns holds exactly one polygon for
\* each sub-cell of the block whose count is not 0, annotated with that
\* count, no polygon for a sub-cell the block does not hold, and no polygon
\* with crime_count 0.
C21_OnePolygonPerCountedSubCell ==
    (op = "rzgrid_to_geojson" /\ raised = "none") =>
        LET block == BlockAt(rzgrid, gtile)
            counted == {c \in GridItems(block) : block[c[1]][c[2]] # 0}
        IN  /\ \A c \in counted :
                  Cardinality({i \in 1..Len(gjos) : gjos[i].box = c}) = 1
            /\ \A i \in 1..Len(gjos) :
                  /\ gjos[i].box \in counted
                  /\ gjos[i].crime_count = block[gjos[i].box[1]][gjos[i].box[2]]
                  /\ gjos[i].crime_count # 0

\* C22: in the pyramid zgrid_from_grid returns, for every level z of
\* min_zoom + 1 .. zoom and every cell (x, y) of level z with a count other
\* than 0, level z - 1 holds the cell (floor(x / 2), floor(y / 2)) with a
\* count of at least the count of (x, y).
C22_ParentDominance ==
    (op = "zgrid_from_grid" /\ raised = "none") =>
        \A z \in (min_zoom + 1)..zoom :
            \A c \in GridItems(Level(z)) :
                Level(z)[c[1]][c[2]] # 0 =>
                    /\ <<c[1] \div 2, c[2] \div 2>> \in GridItems(Level(z - 1))
                    /\ Level(z - 1)[c[1] \div 2][c[2] \div 2] >= Level(z)[c[1]][c[2]]

\* C30: grid_pformat leaves the grid it prints as it was: the same columns
\* and cells after the call as before it.
C30_PformatReadOnly ==
    [][op' = "grid_pformat" => grid' = grid]_vars

\* the number of positions of a sequence that hold a value
CountOf(seq, v) == Cardinality({i \in 1..Len(seq) : seq[i] = v})

RECURSIVE Flatten(_)
\* the rows of a sequence of pages, page after page
Flatten(pgs) == IF pgs = <<>> THEN <<>> ELSE Head(pgs) \o Flatten(Tail(pgs))

\* the status code of the request that held location i
StatusOf(i) == statuscodes[((i - 1) \div batch_size) + 1]

\* C23: executing process() again after a completed or an interrupted run
\* leaves the intermediate records of one complete run: a record for every
\* incident of the incidents file (every row of the raw file for stl), and
\* none of them twice.
C23_ProcessRestartable ==
    (op = "process.again" /\ raised = "none") =>
        LET done == IF region = "stl" THEN 1..Len(raw) ELSE Range(incidents)
        IN  \A id \in done :
                Cardinality({i \in 1..Len(intermediate) : intermediate[i].row = id}) = 1

\* C24: iterated to its end, geocode_mapquest has yielded one item per input
\* location in the order of the locations: None for a location the service
\* did not resolve and for every location of a batch whose request returned a
\* status code other than 0, the point of the location otherwise.
C24_OneItemPerLocation ==
    op = "geocode_mapquest.end" =>
        /\ Len(items) = Len(locations)
        /\ \A i \in 1..Len(locations) :
              i <= Len(items) =>
                  items[i] = IF StatusOf(i) # 0 THEN NoPoint
                             ELSE geocode_result(locations[i])

\* C25: json_obj2crime(crime2json_obj(c)) is returned for every Crime c and
\* has the description, the time and the location of c, and the JSON object
\* holds the key 'geo' exactly when c has a location.
C25_RoundTrip ==
    op \in {"crime2json_obj", "json_obj2crime"} =>
        /\ raised = "none"
        /\ ("geo" \in DOMAIN jo) <=> (crime.location.kind # "None")
        /\ op = "json_obj2crime" =>
              /\ back.description = crime.description
              /\ TimeEq(back.time, crime.time)
              /\ LocationEq(back.location, crime.location)

\* C26: dataset_rows requests the offsets 0, PAGESZ, 2 * PAGESZ, ..., has
\* yielded the rows of the pages it fetched, page after page, each row once,
\* requests no page after one of fewer than PAGESZ rows, has returned exactly
\* when the last page it fetched has fewer than PAGESZ rows (an empty page
\* when the size of the dataset is a multiple of PAGESZ), and does return.
C26_PagesUntilShort ==
    /\ [](op \in {"dataset_rows", "dataset_rows.return"} =>
            /\ \A i \in 1..Len(requests) : requests[i] = (i - 1) * PAGESZ
            /\ yielded = Flatten(pages)
            /\ \A r \in Range(dataset) : CountOf(yielded, r) <= 1
            /\ \A i \in 1..(Len(pages) - 1) : Len(pages[i]) = PAGESZ
            /\ (op = "dataset_rows.return") <=>
                   (pages # <<>> /\ Len(pages[Len(pages)]) < PAGESZ)
            /\ op = "dataset_rows.return" =>
                   /\ yielded = dataset
                   /\ (Len(dataset) % PAGESZ = 0) => pages[Len(pages)] = <<>>)
    /\ (op = "dataset_rows" ~> op = "dataset_rows.return")

\* a dataset of full pages has been read to the empty page that ends it
C26_Witness ==
    /\ op = "dataset_rows.return"
    /\ Len(requests) >= 2
    /\ pages[Len(pages)] = <<>>
    /\ yielded # <<>>

\* C27: after any sequence of download runs the incidents file holds at
\* most one record per incident id, also when the remote source returns an
\* id more than once within a run, and a run against the remote data of the
\* run before appends nothing.
C27_OneRecordPerIncident ==
    /\ [](op = "download" =>
            \A id \in Range(incidents) : CountOf(incidents, id) = 1)
    /\ [][(op = "download" /\ op' = "download" /\ remote' = remote)
            => incidents' = incidents]_vars

\* C28: _process_raw_file has written every row that needs geocoding exactly
\* once, with the location the geocoder resolves for the address of that row
\* or with no location, whatever the geocoder and the status of its batches.
C28_GeocodedRowsWrittenOnce ==
    op = "_process_raw_file" =>
        \A id \in Range(geocoding_needed(raw)) :
            /\ Cardinality({i \in 1..Len(intermediate) : intermediate[i].row = id}) = 1
            /\ \A i \in 1..Len(intermediate) :
                  intermediate[i].row = id =>
                      intermediate[i].loc \in
                          {NoLocation, item_location(geocode_result(raw[id].address))}

\* C29: iterated to its end, geocode_mapquest is exhausted without raising
\* an exception, on an empty input too.
C29_MapquestEndsNormally ==
    op = "geocode_mapquest.end" => raised = "none"
====
